---- MODULE Spec2Model ----
(***************************************************************************)
(* A model of src/app.py, the EMA(9,15) crossover alert monitor.           *)
(*                                                                         *)
(* Two specifications share the module:                                    *)
(*   Spec          the polling loop of main(): startup, one iteration of   *)
(*                 the per-symbol loop body per step, the sleep.           *)
(*   SpecDetector  the pure functions calculate_ema and                    *)
(*                 check_ema_crossover applied to bounded price series.    *)
(*                                                                         *)
(* Python floats are modelled as the IEEE 754 doubles they are, with the   *)
(* rounding of every operation; Python None and a raised exception are     *)
(* tagged records.  datetime.now() is modelled as an integer clock in      *)
(* seconds that never runs backwards.                                      *)
(***************************************************************************)
EXTENDS Integers, Sequences, FiniteSets, TLC

VARIABLES
    \* ---- detector specification ----
    series,      \* the closing prices handed to the detector, oldest first
    det,         \* what check_ema_crossover returned for series
    det_prev,    \* what it returned for series without its newest close
    ema_call,    \* the last direct call of calculate_ema: arguments, result
    appended,    \* how many closes were appended to the initial series
    \* ---- polling-loop specification: module-level configuration ----
    TELEGRAM_BOT_TOKEN,
    TELEGRAM_CHAT_ID,
    TWELVEDATA_API_KEY,
    TIMEFRAME_MINUTES,
    \* ---- polling-loop specification: main() ----
    pc,                    \* "start", "while", "for", "crashed"
    clock,                 \* the wall clock, in seconds
    now,                   \* main's now: the clock read at the top of the cycle
    idx,                   \* the place in SYMBOLS the for loop is at
    last_alert_timestamp,  \* main's dict: api_symbol -> now of the last alert
    \* ---- polling-loop specification: history ----
    outcome,     \* what the last iteration of the for loop did
    cycle,       \* how many cycles were begun
    zero_cycle   \* whether some cycle reached its sleep in the second of its now

dvars == <<series, det, det_prev, ema_call, appended>>

config == <<TELEGRAM_BOT_TOKEN, TELEGRAM_CHAT_ID, TWELVEDATA_API_KEY, TIMEFRAME_MINUTES>>

mvars == <<config, pc, clock, now, idx, last_alert_timestamp, outcome, cycle, zero_cycle>>

vars == <<dvars, mvars>>

(***************************************************************************)
(* Program constants and bounds                                            *)
(***************************************************************************)
EMA_FAST == 9
EMA_SLOW == 15
\* int(os.getenv("TIMEFRAME_MINUTES", "1")) with the variable not set
DefaultTimeframe == 1

\* closing prices are drawn from 1.0 .. MaxPrice (and 100.0)
MaxPrice == 2
\* initial series are constant runs of length 0..MaxInitLen
MaxInitLen == 21
\* closes appended to the initial series
MaxAppend == 2
\* periods tried in direct calls of calculate_ema: -MaxPeriod..MaxPeriod
MaxPeriod == 3
\* direct calls of calculate_ema run its loop at most this many times, and
\* are made on an initial series or on one of at most MaxCallLen closes
MaxLoopSteps == 6
MaxCallLen == 6
\* how many entries of SYMBOLS the loop goes over
NumSymbols == 2
\* polling cycles begun before the model stops
MaxCycles == 2
\* the for loop of one cycle and the oversleeping of its time.sleep take
\* 0..MaxLag seconds together
MaxLag == 1

(***************************************************************************)
(* Python values                                                           *)
(***************************************************************************)
None == [tag |-> "None"]
Raised(e) == [tag |-> "raise", exc |-> e]

Abs(x) == IF x < 0 THEN -x ELSE x

(***************************************************************************)
(* Python floats are IEEE 754 doubles.  A float is kept as                 *)
(*     (-1)^neg * (hi * 2^28 + lo) * 2^exp                                 *)
(* with a significand hi * 2^28 + lo of exactly MANT_DIG bits (0.0 and     *)
(* -0.0 have hi = lo = 0), and every operation rounds its exact result to  *)
(* the nearest double, ties to even.  The exact results are computed on    *)
(* numbers of four limbs of 28 bits, lowest limb first.  Overflow and      *)
(* subnormal results, far from any price, are left out.                    *)
(***************************************************************************)
\* sys.float_info.mant_dig
MANT_DIG == 53
Half == 2^14
Limb == 2^28

FloatRec(neg, hi, lo, exp) ==
    [tag |-> "float", neg |-> neg, hi |-> hi, lo |-> lo, exp |-> exp]

\* the number of bits of x, 0 <= x < 2^(2w)
RECURSIVE BitsBy(_, _)
BitsBy(x, w) ==
    IF w = 0 THEN x
    ELSE IF x >= 2^w THEN w + BitsBy(x \div 2^w, w \div 2)
    ELSE BitsBy(x, w \div 2)

Bits(x) == BitsBy(x, 16)

BitLen(w) ==
    IF w[4] # 0 THEN 84 + Bits(w[4])
    ELSE IF w[3] # 0 THEN 56 + Bits(w[3])
    ELSE IF w[2] # 0 THEN 28 + Bits(w[2])
    ELSE Bits(w[1])

LimbOf(w, i) == IF i >= 1 /\ i <= 4 THEN w[i] ELSE 0

\* w * 2^(28k + s), which fits in four limbs
ShlBy(w, k, s) ==
    [i \in 1..4 |-> (LimbOf(w, i - k) % 2^(28 - s)) * 2^s
                    + LimbOf(w, i - k - 1) \div 2^(28 - s)]

Shl(w, d) == ShlBy(w, d \div 28, d % 28)

\* w \div 2^(28k + s)
ShrBy(w, k, s) ==
    [i \in 1..4 |-> LimbOf(w, i + k) \div 2^s
                    + (LimbOf(w, i + k + 1) % 2^s) * 2^(28 - s)]

Shr(w, d) == ShrBy(w, d \div 28, d % 28)

\* whether one of the lowest n bits of w is set
LowBits(w, n) ==
    \/ \E i \in 1..4 : i <= n \div 28 /\ w[i] # 0
    \/ LimbOf(w, n \div 28 + 1) % 2^(n % 28) # 0

\* the limbs of s1 + s2 * Limb + s3 * Limb^2 + s4 * Limb^3
Carried(s1, s2, s3, s4) ==
    <<s1 % Limb, (s2 + s1 \div Limb) % Limb,
      (s3 + (s2 + s1 \div Limb) \div Limb) % Limb,
      (s4 + (s3 + (s2 + s1 \div Limb) \div Limb) \div Limb) % Limb>>

AddW(a, b) == Carried(a[1] + b[1], a[2] + b[2], a[3] + b[3], a[4] + b[4])

\* a - b for a >= b
SubW(a, b) == Carried(a[1] - b[1], a[2] - b[2], a[3] - b[3], a[4] - b[4])

LessW(a, b) ==
    IF a[4] # b[4] THEN a[4] < b[4]
    ELSE IF a[3] # b[3] THEN a[3] < b[3]
    ELSE IF a[2] # b[2] THEN a[2] < b[2]
    ELSE a[1] < b[1]

\* (t1 + t2 * Limb) \div 2 for a number of MANT_DIG + 1 bits, or 2^(MANT_DIG + 1)
Halve(neg, t1, t2, exp) ==
    IF t2 = 2^26 THEN FloatRec(neg, 2^24, 0, exp + 2)
    ELSE FloatRec(neg, t2 \div 2, t1 \div 2 + (t2 % 2) * 2^27, exp + 1)

\* t has MANT_DIG + 1 bits, the last of them the one to round away; sticky
\* says whether anything non-zero lay below it
RoundT(neg, t, sticky, exp) ==
    IF t[1] % 2 = 1 /\ (sticky \/ t[1] % 4 = 3)
    THEN Halve(neg, (t[1] + 1) % Limb, t[2] + (t[1] + 1) \div Limb, exp)
    ELSE Halve(neg, t[1], t[2], exp)

Fit(neg, v, exp) == FloatRec(neg, v[2], v[1], exp)

RoundLen(neg, w, exp, sticky, len) ==
    IF len = 0 THEN FloatRec(neg, 0, 0, 0)
    ELSE IF len <= MANT_DIG
         THEN Fit(neg, Shl(w, MANT_DIG - len), exp - (MANT_DIG - len))
         ELSE RoundT(neg, Shr(w, len - MANT_DIG - 1),
                     sticky \/ LowBits(w, len - MANT_DIG - 1),
                     exp + (len - MANT_DIG - 1))

\* the double nearest to w * 2^exp (plus a little, if sticky)
Round(neg, w, exp, sticky) == RoundLen(neg, w, exp, sticky, BitLen(w))

\* float(i) for an int i
FloatOfInt(i) == Round(i < 0, <<Abs(i) % Limb, Abs(i) \div Limb, 0, 0>>, 0, FALSE)

IsZero(x) == x.hi = 0

Mant(x) == <<x.lo, x.hi, 0, 0>>

\* x + y, X and Y being their significands at the exponent of y
AddAt(x, y, X, Y) ==
    IF x.neg = y.neg THEN Round(x.neg, AddW(X, Y), y.exp, FALSE)
    ELSE IF X = Y THEN FloatRec(FALSE, 0, 0, 0)
    ELSE IF LessW(Y, X) THEN Round(x.neg, SubW(X, Y), y.exp, FALSE)
    ELSE Round(y.neg, SubW(Y, X), y.exp, FALSE)

\* x + y for x.exp >= y.exp; a y below 1/64 of the last place of x is lost
AddOrd(x, y) ==
    IF x.exp - y.exp > 58 THEN x
    ELSE AddAt(x, y, Shl(Mant(x), x.exp - y.exp), Mant(y))

FAdd(x, y) ==
    IF IsZero(x) THEN (IF IsZero(y) THEN FloatRec(x.neg /\ y.neg, 0, 0, 0) ELSE y)
    ELSE IF IsZero(y) THEN x
    ELSE IF x.exp >= y.exp THEN AddOrd(x, y)
    ELSE AddOrd(y, x)

FNeg(x) == [x EXCEPT !.neg = ~x.neg]

FSub(x, y) == FAdd(x, FNeg(y))

\* the significand in four pieces of 14 bits, lowest first
Pieces(x) == <<x.lo % Half, x.lo \div Half, x.hi % Half, x.hi \div Half>>

\* the product of two significands, by the powers of Half
Columns(a, b) ==
    <<a[1] * b[1],
      a[1] * b[2] + a[2] * b[1],
      a[1] * b[3] + a[2] * b[2] + a[3] * b[1],
      a[1] * b[4] + a[2] * b[3] + a[3] * b[2] + a[4] * b[1],
      a[2] * b[4] + a[3] * b[3] + a[4] * b[2],
      a[3] * b[4] + a[4] * b[3],
      a[4] * b[4]>>

\* the pieces of the number c[k] + c[k+1] * Half + ..., after a carry
RECURSIVE Digits(_, _, _)
Digits(c, k, carry) ==
    IF k > Len(c) THEN <<carry>>
    ELSE <<(c[k] + carry) % Half>> \o Digits(c, k + 1, (c[k] + carry) \div Half)

Pair(d) == <<d[1] + d[2] * Half, d[3] + d[4] * Half, d[5] + d[6] * Half,
             d[7] + d[8] * Half>>

FMul(x, y) ==
    IF IsZero(x) \/ IsZero(y) THEN FloatRec(x.neg # y.neg, 0, 0, 0)
    ELSE Round(x.neg # y.neg, Pair(Digits(Columns(Pieces(x), Pieces(y)), 1, 0)),
               x.exp + y.exp, FALSE)

\* long division by d of the pieces p[k], ..., p[1], r being the remainder
\* so far: <<remainder, lowest piece of the quotient, ...>>
RECURSIVE LongDiv(_, _, _, _)
LongDiv(p, k, r, d) ==
    IF k = 0 THEN <<r>>
    ELSE LongDiv(p, k - 1, (r * Half + p[k]) % d, d) \o <<(r * Half + p[k]) \div d>>

Quot(q) == <<q[2] + q[3] * Half, q[4] + q[5] * Half, q[6] + q[7] * Half, 0>>

DivRound(neg, q, exp) == Round(neg, Quot(q), exp, q[1] # 0)

\* x / d for a float x and an int d, 0 < |d| < 2^17: the quotient is taken
\* to 28 bits more than x has
FDivInt(x, d) ==
    IF IsZero(x) THEN FloatRec(x.neg # (d < 0), 0, 0, 0)
    ELSE DivRound(x.neg # (d < 0), LongDiv(<<0, 0>> \o Pieces(x), 6, 0, Abs(d)),
                  x.exp - 28)

MagLess(x, y) ==
    IF IsZero(y) THEN FALSE
    ELSE IF IsZero(x) THEN TRUE
    ELSE IF x.exp # y.exp THEN x.exp < y.exp
    ELSE IF x.hi # y.hi THEN x.hi < y.hi
    ELSE x.lo < y.lo

\* x < y
FLess(x, y) ==
    IF x.neg # y.neg THEN x.neg /\ ~(IsZero(x) /\ IsZero(y))
    ELSE IF x.neg THEN MagLess(y, x)
    ELSE MagLess(x, y)

\* x <= y
FLeq(x, y) == ~FLess(y, x)

\* x == y (0.0 == -0.0)
FEq(x, y) == ~FLess(x, y) /\ ~FLess(y, x)

\* float(text) for the text of a decimal number, units / 10^places, which
\* Python rounds to the nearest double; any other text raises ValueError
PyFloat(text) ==
    IF "units" \in DOMAIN text
    THEN FDivInt(FloatOfInt(text.units), 10^text.places)
    ELSE Raised("ValueError")

Decimal(units, places) == [units |-> units, places |-> places]

\* Python's s[lo:hi] (0-based, negative indices count from the end)
PyIndex(n, i) == IF i < 0 THEN (IF n + i < 0 THEN 0 ELSE n + i)
                 ELSE (IF i > n THEN n ELSE i)

PySlice(s, lo, hi) == SubSeq(s, PyIndex(Len(s), lo) + 1, PyIndex(Len(s), hi))

\* s[lo:]
PySliceFrom(s, lo) == SubSeq(s, PyIndex(Len(s), lo) + 1, Len(s))

\* sum(s) of floats: 0 + s[0] + s[1] + ..., added from left to right, each
\* addition rounded
RECURSIVE sum_upto(_, _)
sum_upto(s, n) == IF n = 0 THEN FloatOfInt(0) ELSE FAdd(sum_upto(s, n - 1), s[n])

sum(s) == sum_upto(s, Len(s))

(***************************************************************************)
(* calculate_ema                                                           *)
(***************************************************************************)
\* the loop "for price in prices[period:]": rest is the slice, i the 1-based
\* place of the next price in it
RECURSIVE ema_loop(_, _, _, _)
ema_loop(ema, rest, i, multiplier) ==
    IF ema.tag # "float" \/ i > Len(rest) THEN ema
    ELSE ema_loop(FAdd(FMul(FSub(rest[i], ema), multiplier), ema),
                  rest, i + 1, multiplier)

\* the seed divided by period + 1 instead of period
calculate_ema_seed(prices, period) ==
    IF Len(prices) < period THEN None
    ELSE IF period + 1 = 0 THEN Raised("ZeroDivisionError")
    ELSE IF period = 0 THEN Raised("ZeroDivisionError")
    ELSE ema_loop(FDivInt(sum(PySlice(prices, 0, period)), period + 1),
                  PySliceFrom(prices, period), 1,
                  FDivInt(FloatOfInt(2), period + 1))

calculate_ema(prices, period) ==
    IF Len(prices) < period THEN None
    ELSE IF period + 1 = 0 THEN Raised("ZeroDivisionError")
    ELSE IF period = 0 THEN Raised("ZeroDivisionError")
    ELSE ema_loop(FDivInt(sum(PySlice(prices, 0, period)), period),
                  PySliceFrom(prices, period), 1,
                  FDivInt(FloatOfInt(2), period + 1))

(***************************************************************************)
(* check_ema_crossover                                                     *)
(***************************************************************************)
\* "if len(prices_list) < EMA_SLOW + 5: return None, None, None", negated
enough_data_short(prices_list) == ~(Len(prices_list) < EMA_SLOW)

enough_data(prices_list) == ~(Len(prices_list) < EMA_SLOW + 5)

\* prev_prices = prices_list[-(EMA_SLOW + 6):-1]
prev_window_stale(prices_list) == PySlice(prices_list, -(EMA_SLOW + 7), -2)

prev_window(prices_list) == PySlice(prices_list, -(EMA_SLOW + 6), -1)

\* the if / elif that sets crossover once both previous values are there
classify_strict(ema_fast_prev, ema_slow_prev, ema_fast_current, ema_slow_current) ==
    IF FLess(ema_fast_prev, ema_slow_prev)
       /\ FLess(ema_slow_current, ema_fast_current)
    THEN "bullish"
    ELSE IF FLess(ema_slow_prev, ema_fast_prev)
            /\ FLess(ema_fast_current, ema_slow_current)
         THEN "bearish"
         ELSE "None"

classify(ema_fast_prev, ema_slow_prev, ema_fast_current, ema_slow_current) ==
    IF FLeq(ema_fast_prev, ema_slow_prev)
       /\ FLess(ema_slow_current, ema_fast_current)
    THEN "bullish"
    ELSE IF FLeq(ema_slow_prev, ema_fast_prev)
            /\ FLess(ema_fast_current, ema_slow_current)
         THEN "bearish"
         ELSE "None"

\* lines 183-204: the result, once the four EMAs are computed
detect(ema_fast_prev, ema_slow_prev, ema_fast_current, ema_slow_current) ==
    [crossover |-> IF ema_fast_prev # None /\ ema_slow_prev # None
                   THEN classify(ema_fast_prev, ema_slow_prev,
                                 ema_fast_current, ema_slow_current)
                   ELSE "None",
     ema_fast |-> ema_fast_current,
     ema_slow |-> ema_slow_current]

\* lines 169-204: what follows the two current EMAs
with_current(prices_list, prev_prices, ema_fast_current, ema_slow_current) ==
    IF ema_fast_current = None \/ ema_slow_current = None
    THEN [crossover |-> "None", ema_fast |-> ema_fast_current,
          ema_slow |-> ema_slow_current]
    ELSE detect(IF Len(prev_prices) < EMA_SLOW THEN None
                ELSE calculate_ema(prev_prices, EMA_FAST),
                IF Len(prev_prices) < EMA_SLOW THEN None
                ELSE calculate_ema(prev_prices, EMA_SLOW),
                ema_fast_current, ema_slow_current)

\* recent_prices = prices_list[-(EMA_SLOW + 5):]
recent_window(prices_list) == PySliceFrom(prices_list, -(EMA_SLOW + 5))

check_ema_crossover(prices_list) ==
    IF ~enough_data(prices_list)
    THEN [crossover |-> "None", ema_fast |-> None, ema_slow |-> None]
    ELSE with_current(prices_list, prev_window(prices_list),
                      calculate_ema(recent_window(prices_list), EMA_FAST),
                      calculate_ema(recent_window(prices_list), EMA_SLOW))

(***************************************************************************)
(* The detector specification                                              *)
(***************************************************************************)
\* the closes a series is made of: 1.0 .. MaxPrice and the 100.0 of the
\* 20-candle flat scenario
Prices == {FloatOfInt(i) : i \in 1..MaxPrice} \cup {FloatOfInt(100)}

\* the constant value of an initial series: one of these, or float("0.9"),
\* which no double equals
InitPrices == Prices \cup {PyFloat(Decimal(9, 1))}

\* how often calculate_ema(prices, period) runs its loop body
LoopSteps(prices, period) == Len(PySliceFrom(prices, period))

ConstSeries(v, n) == [i \in 1..n |-> v]

NotRun == [tag |-> "not run"]

DStart ==
    /\ \E v \in InitPrices, n \in 0..MaxInitLen : series = ConstSeries(v, n)
    /\ det = check_ema_crossover(series)
    /\ det_prev = NotRun
    /\ ema_call = NotRun
    /\ appended = 0

\* the loop specification leaves the detector's variables at rest
DIdle ==
    /\ series = <<>>
    /\ det = NotRun
    /\ det_prev = NotRun
    /\ ema_call = NotRun
    /\ appended = 0

\* the provider returns the same history with one newer close; the detector
\* runs on it
AppendClose ==
    /\ \E x \in Prices :
         /\ appended < MaxAppend
         /\ series' = Append(series, x)
    /\ det' = check_ema_crossover(series')
    /\ det_prev' = det
    /\ ema_call' = NotRun
    /\ appended' = appended + 1
    /\ UNCHANGED mvars

CallCalculateEma ==
    /\ ema_call = NotRun
    /\ \E period \in (-MaxPeriod)..MaxPeriod \cup {EMA_FAST, EMA_SLOW} :
         /\ LoopSteps(series, period) <= MaxLoopSteps
         /\ Len(series) <= MaxCallLen \/ appended = 0
         /\ ema_call' = [prices |-> series, period |-> period,
                         result |-> calculate_ema(series, period)]
    /\ UNCHANGED <<series, det, det_prev, appended, mvars>>

DNext == AppendClose \/ CallCalculateEma
(***************************************************************************)
(* The polling loop: configuration, collaborators, main()                  *)
(***************************************************************************)
\* os.getenv gives None for a variable that is not set
Unset == "<None>"

\* Python truthiness of an optional string
Truthy(v) == v # Unset /\ v # ""

AllSymbols ==
    << [provider |-> "twelvedata", api_symbol |-> "BTC/USD", label |-> "BTC/USD"],
       [provider |-> "twelvedata", api_symbol |-> "SOL/USD", label |-> "SOL/USD"],
       [provider |-> "twelvedata", api_symbol |-> "ETH/USD", label |-> "ETH/USD"],
       [provider |-> "twelvedata", api_symbol |-> "USD/JPY", label |-> "USDJPY"],
       [provider |-> "twelvedata", api_symbol |-> "GBP/USD", label |-> "GBPUSD"],
       [provider |-> "twelvedata", api_symbol |-> "AUD/USD", label |-> "AUDUSD"],
       [provider |-> "twelvedata", api_symbol |-> "EUR/USD", label |-> "EURUSD"],
       [provider |-> "twelvedata", api_symbol |-> "XAU/USD", label |-> "XAU/USD"] >>

\* the first NumSymbols entries of the list
SYMBOLS == SubSeq(AllSymbols, 1, IF NumSymbols < Len(AllSymbols) THEN NumSymbols
                                 ELSE Len(AllSymbols))

sleep_seconds == TIMEFRAME_MINUTES * 60

\* ---- what Twelve Data may answer to one request ----
\* one entry of "values"; the provider sends its prices as texts: c with
\* five decimal places for the integer c
Value(c) == [datetime |-> "2024-01-01 12:34:00",
             open |-> Decimal(c * 100000, 5), high |-> Decimal(c * 100000, 5),
             low |-> Decimal(c * 100000, 5), close |-> Decimal(c * 100000, 5)]

\* an entry without its "close"
BadValue(c) == [k \in {"datetime", "open", "high", "low"} |-> Value(c)[k]]

\* an entry whose "close" is not the text of a number
NanValue(c) == [Value(c) EXCEPT !.close = [text |-> "N/A"]]

Reverse(s) == [i \in 1..Len(s) |-> s[Len(s) + 1 - i]]

\* "values" for the closes given oldest first: the provider sends newest first
ValuesFor(closes) == Reverse([i \in 1..Len(closes) |-> Value(closes[i])])

\* closes the provider may send, as integers
FlatCloses == ConstSeries(1, EMA_SLOW + 5)
BullCloses == ConstSeries(1, EMA_SLOW + 4) \o <<2>>
BearCloses == ConstSeries(2, EMA_SLOW + 4) \o <<1>>
ShortCloses == ConstSeries(1, EMA_SLOW + 4)

Replies ==
    { [kind |-> "timeout"],        \* requests.get raises
      [kind |-> "http_error"],     \* raise_for_status raises
      [kind |-> "bad_json"],       \* resp.json() raises
      [kind |-> "no_values"],      \* an error payload: no "values" key
      [kind |-> "values", values |-> <<>>],
      [kind |-> "values", values |-> ValuesFor(ShortCloses)],
      [kind |-> "values", values |-> ValuesFor(FlatCloses)],
      [kind |-> "values", values |-> ValuesFor(BullCloses)],
      [kind |-> "values", values |-> ValuesFor(BearCloses)],
      [kind |-> "values", values |-> <<BadValue(2)>> \o ValuesFor(BullCloses)],
      [kind |-> "values", values |-> <<NanValue(2)>> \o ValuesFor(BullCloses)] }

\* check_ema_crossover is a pure function: its results for the closes the
\* modelled provider can send are tabulated once
ReplyCloses == {[i \in 1..Len(closes) |-> PyFloat(Value(closes[i]).close)] :
                   closes \in {FlatCloses, BullCloses, BearCloses}}

detector_on == [closes \in ReplyCloses |-> check_ema_crossover(closes)]

List(items) == [tag |-> "list", items |-> items]

\* float(v[key]): KeyError without the key, ValueError on a text that is
\* not a number
price_of(v, key) == IF key \notin DOMAIN v THEN Raised("KeyError") ELSE PyFloat(v[key])

\* lines 106-118: the candle [timestamp, open, high, low, close] of one
\* entry, or the first exception its four conversions raise
candle(timestamp, open_price, high, low, close) ==
    IF open_price.tag = "raise" THEN open_price
    ELSE IF high.tag = "raise" THEN high
    ELSE IF low.tag = "raise" THEN low
    ELSE IF close.tag = "raise" THEN close
    ELSE [tag |-> "candle", row |-> <<timestamp, open_price, high, low, close>>]

candle_of(v) ==
    candle(v.datetime, price_of(v, "open"), price_of(v, "high"),
           price_of(v, "low"), price_of(v, "close"))

\* the loop "for v in values", from the i-th entry on: the candles, or the
\* exception of the first entry that raises one
append_or_raise(c, rest) ==
    IF c.tag = "raise" THEN c
    ELSE IF rest.tag = "raise" THEN rest
    ELSE List(<<c.row>> \o rest.items)

RECURSIVE parse_from(_, _)
parse_from(values, i) ==
    IF i > Len(values) THEN List(<<>>)
    ELSE append_or_raise(candle_of(values[i]), parse_from(values, i + 1))

\* lines 104-120
parse_values(values) == parse_from(values, 1)

\* parse_values is a pure function: its results for the values the modelled
\* provider can send are tabulated once
parsed == [values \in {r.values : r \in {q \in Replies : q.kind = "values"}} |->
             parse_values(Reverse(values))]

fetch_twelvedata_ohlc(reply) ==
    IF ~Truthy(TWELVEDATA_API_KEY) THEN None
    ELSE IF reply.kind = "timeout" THEN Raised("requests.exceptions.Timeout")
    ELSE IF reply.kind = "http_error" THEN Raised("requests.exceptions.HTTPError")
    ELSE IF reply.kind = "bad_json" THEN Raised("JSONDecodeError")
    ELSE IF reply.kind = "no_values" THEN None
    ELSE parsed[reply.values]

\* posted: whether Telegram accepts the message (otherwise requests raises a
\* RequestException, which send_email_alert catches)
send_email_alert(posted) ==
    IF ~Truthy(TELEGRAM_BOT_TOKEN) \/ ~Truthy(TELEGRAM_CHAT_ID) THEN FALSE
    ELSE posted

\* "last_ts is None or (now - last_ts).total_seconds() > sleep_seconds", with
\* last_ts = last_alert_timestamp.get(api_symbol)
throttle_allows_geq(api_symbol) ==
    \/ api_symbol \notin DOMAIN last_alert_timestamp
    \/ now - last_alert_timestamp[api_symbol] >= sleep_seconds

throttle_allows(api_symbol) ==
    \/ api_symbol \notin DOMAIN last_alert_timestamp
    \/ now - last_alert_timestamp[api_symbol] > sleep_seconds

NoOutcome == [tag |-> "none yet"]

\* lines 250-256: the alert for a detector result r, starting from the
\* record base of an iteration that has skipped nothing
alert_step(base, r, posted) ==
    IF r.crossover # "None" /\ r.ema_fast # None /\ r.ema_slow # None
    THEN IF throttle_allows(base.api_symbol)
         THEN [base EXCEPT
                 !.skipped = FALSE, !.crossover = r.crossover,
                 !.gate = "allowed",
                 !.dispatch = IF send_email_alert(posted) THEN "sent" ELSE "failed",
                 !.dict = [k \in DOMAIN last_alert_timestamp \cup {base.api_symbol} |->
                             IF k = base.api_symbol THEN now
                             ELSE last_alert_timestamp[k]]]
         ELSE [base EXCEPT !.skipped = FALSE, !.crossover = r.crossover,
                           !.gate = "blocked"]
    ELSE [base EXCEPT !.skipped = FALSE]

\* lines 242-256: what follows the fetch, given what it returned
after_fetch(base, ohlc_data, posted) ==
    IF ohlc_data.tag = "raise" THEN [base EXCEPT !.raised = TRUE]
    ELSE IF ohlc_data = None THEN base
    ELSE IF ohlc_data.items = <<>> \/ Len(ohlc_data.items) < EMA_SLOW + 5 THEN base
    ELSE \* closes = [candle[4] for candle in ohlc_data]; the detector's result
         \* for them is read from the table detector_on
         alert_step(base,
                    detector_on[[i \in 1..Len(ohlc_data.items) |-> ohlc_data.items[i][5]]],
                    posted)

\* the record of an iteration that skips its symbol
skip_record(api_symbol, fetch, had_ts) ==
    [tag |-> "iteration", cycle |-> cycle, index |-> idx,
     api_symbol |-> api_symbol, now |-> now, fetch |-> fetch,
     raised |-> FALSE, skipped |-> TRUE, crossover |-> "None",
     had_ts |-> had_ts,
     last_ts |-> IF had_ts THEN last_alert_timestamp[api_symbol] ELSE 0,
     gate |-> "not asked", dispatch |-> "none", dict |-> last_alert_timestamp]

\* the body of "for cfg in SYMBOLS" for SYMBOLS[idx], given what the two
\* collaborators answer: what it does and the dict it leaves
loop_body(reply, posted) ==
    IF SYMBOLS[idx].provider # "twelvedata"
    THEN skip_record(SYMBOLS[idx].api_symbol, "unknown provider",
                     SYMBOLS[idx].api_symbol \in DOMAIN last_alert_timestamp)
    ELSE after_fetch(skip_record(SYMBOLS[idx].api_symbol,
                                 IF ~Truthy(TWELVEDATA_API_KEY) THEN "no_api_key"
                                 ELSE reply.kind,
                                 SYMBOLS[idx].api_symbol \in DOMAIN last_alert_timestamp),
                     fetch_twelvedata_ohlc(reply), posted)

MStart ==
    /\ TELEGRAM_BOT_TOKEN \in {Unset, "token"}
    /\ TELEGRAM_CHAT_ID \in {Unset, "chat"}
    /\ TWELVEDATA_API_KEY \in {Unset, "key"}
    /\ TIMEFRAME_MINUTES = DefaultTimeframe
    /\ pc = "start"
    /\ clock = 0
    /\ now = 0
    /\ idx = 1
    /\ last_alert_timestamp = <<>>
    /\ outcome = NoOutcome
    /\ cycle = 0
    /\ zero_cycle = FALSE

\* main() up to "while True": the banner, sleep_seconds, the empty dict
Startup ==
    /\ pc = "start"
    /\ pc' = "while"
    /\ last_alert_timestamp' = <<>>
    /\ UNCHANGED <<config, clock, now, idx, outcome, cycle, zero_cycle, dvars>>

\* "now = datetime.now()" and the entry into the for loop
BeginCycle ==
    /\ pc = "while"
    /\ cycle < MaxCycles
    /\ now' = clock
    /\ idx' = 1
    /\ pc' = "for"
    /\ cycle' = cycle + 1
    /\ UNCHANGED <<config, clock, last_alert_timestamp, outcome, zero_cycle, dvars>>

\* one iteration of the for loop; an exception that leaves
\* fetch_twelvedata_ohlc leaves main() too and ends the process
Iterate ==
    /\ pc = "for"
    /\ idx <= Len(SYMBOLS)
    /\ \E reply \in Replies, posted \in BOOLEAN :
         \E o \in {loop_body(reply, posted)} :
             /\ outcome' = o
             /\ last_alert_timestamp' = o.dict
             /\ pc' = IF o.raised THEN "crashed" ELSE "for"
             /\ idx' = IF o.raised THEN idx ELSE idx + 1
             /\ \E d \in 0..(MaxLag - (clock - now)) : clock' = clock + d
    /\ UNCHANGED <<config, now, cycle, zero_cycle, dvars>>

\* time.sleep given the minutes instead of the seconds
Sleep_short ==
    /\ pc = "for"
    /\ idx > Len(SYMBOLS)
    /\ \E over \in 0..(MaxLag - (clock - now)) : clock' = clock + TIMEFRAME_MINUTES + over
    /\ zero_cycle' = (zero_cycle \/ clock = now)
    /\ pc' = "while"
    /\ outcome' = NoOutcome
    /\ UNCHANGED <<config, now, idx, last_alert_timestamp, cycle, dvars>>

\* "time.sleep(sleep_seconds)" after the for loop, back to "while True"
Sleep ==
    /\ pc = "for"
    /\ idx > Len(SYMBOLS)
    /\ \E over \in 0..(MaxLag - (clock - now)) : clock' = clock + sleep_seconds + over
    /\ zero_cycle' = (zero_cycle \/ clock = now)
    /\ pc' = "while"
    /\ outcome' = NoOutcome
    /\ UNCHANGED <<config, now, idx, last_alert_timestamp, cycle, dvars>>

Next == Startup \/ BeginCycle \/ Iterate \/ Sleep

Init == MStart /\ DIdle

Spec == Init /\ [][Next]_vars

\* the detector specification leaves the loop's variables at rest
MIdle ==
    /\ TELEGRAM_BOT_TOKEN = Unset
    /\ TELEGRAM_CHAT_ID = Unset
    /\ TWELVEDATA_API_KEY = Unset
    /\ TIMEFRAME_MINUTES = DefaultTimeframe
    /\ pc = "start"
    /\ clock = 0
    /\ now = 0
    /\ idx = 1
    /\ last_alert_timestamp = <<>>
    /\ outcome = NoOutcome
    /\ cycle = 0
    /\ zero_cycle = FALSE

DInit == DStart /\ MIdle

SpecDetector == DInit /\ [][DNext]_vars

(***************************************************************************)
(* Claims about the detector, checked under SpecDetector                   *)
(***************************************************************************)
IsConstant(s, v) == \A i \in 1..Len(s) : s[i] = v

Evaluated(d) == d # NotRun /\ d.ema_fast # None /\ d.ema_slow # None

\* the window one candle back, written with 1-based places: the 20 closes
\* before the newest one (19 when the series has only 20)
OneBack(s) == SubSeq(s, IF Len(s) > EMA_SLOW + 5 THEN Len(s) - (EMA_SLOW + 5) ELSE 1,
                     Len(s) - 1)

\* C5: when the detector evaluated S (det_prev) and then S + [x] (det), the
\* same direction is never reported for both, and a crossover is reported
\* for S + [x] only if the fast EMA really changed sides between the two
\* evaluations: bullish needs fast <= slow at S and fast > slow at S + [x],
\* bearish the mirror image.
C5_NoRereport ==
    Evaluated(det_prev) =>
      /\ ~(det_prev.crossover = "bullish" /\ det.crossover = "bullish")
      /\ ~(det_prev.crossover = "bearish" /\ det.crossover = "bearish")
      /\ det.crossover = "bullish" =>
            /\ FLeq(det_prev.ema_fast, det_prev.ema_slow)
            /\ FLess(det.ema_slow, det.ema_fast)
      /\ det.crossover = "bearish" =>
            /\ FLeq(det_prev.ema_slow, det_prev.ema_fast)
            /\ FLess(det.ema_fast, det.ema_slow)

\* a bullish crossover was reported for S; for S + [x] the fast EMA is still
\* above the slow one and nothing is reported
C5_Witness ==
    /\ Evaluated(det_prev)
    /\ det_prev.crossover = "bullish"
    /\ det.crossover = "None"
    /\ FLess(det.ema_slow, det.ema_fast)

\* C6: on a series the detector evaluates, with the previous EMAs taken over
\* the window one candle back, the result is bullish exactly when previous
\* fast <= previous slow and current fast > current slow, bearish exactly
\* when previous fast >= previous slow and current fast < current slow, and
\* no crossover otherwise; equal current EMAs give no crossover and the two
\* conditions never hold together.
C6_Classification ==
    Len(series) >= EMA_SLOW + 5 =>
      LET fp == calculate_ema(OneBack(series), EMA_FAST)
          sp == calculate_ema(OneBack(series), EMA_SLOW)
          fc == det.ema_fast
          sc == det.ema_slow
          bull == FLeq(fp, sp) /\ FLess(sc, fc)
          bear == FLeq(sp, fp) /\ FLess(fc, sc)
      IN  /\ fp # None /\ sp # None
          /\ (det.crossover = "bullish") <=> bull
          /\ (det.crossover = "bearish") <=> bear
          /\ (det.crossover = "None") <=> (~bull /\ ~bear)
          /\ FEq(fc, sc) => det.crossover = "None"
          /\ ~(bull /\ bear)

\* a bullish crossover out of an exact tie of the previous EMAs
C6_Witness ==
    /\ Len(series) >= EMA_SLOW + 5
    /\ det.crossover = "bullish"
    /\ calculate_ema(OneBack(series), EMA_FAST) = calculate_ema(OneBack(series), EMA_SLOW)

\* C7: a series shorter than EMA_SLOW + 5 (the empty one included) gives
\* (None, None, None), and nothing is raised.
C7_ShortSeries ==
    Len(series) < EMA_SLOW + 5 =>
      det = [crossover |-> "None", ema_fast |-> None, ema_slow |-> None]

\* one close short of the minimum, after a close was appended
C7_Witness ==
    /\ Len(series) = EMA_SLOW + 4
    /\ appended > 0
    /\ det = [crossover |-> "None", ema_fast |-> None, ema_slow |-> None]

\* |x - v| <= |v| * 2^-30: x is v within a relative tolerance of about 1e-9
FAbs(x) == [x EXCEPT !.neg = FALSE]

RelTol == [FloatOfInt(1) EXCEPT !.exp = @ - 30]

Close(x, v) == FLeq(FAbs(FSub(x, v)), FMul(FAbs(v), RelTol))

\* C8 as stated: calculate_ema of a constant series of value v, with
\* 1 <= period <= length, is exactly v; the detector on a constant series of
\* at least EMA_SLOW + 5 closes returns fast = slow = v and no crossover.
C8_ExactlyV ==
    /\ (ema_call # NotRun /\ ema_call.period >= 1
           /\ Len(ema_call.prices) >= ema_call.period) =>
          \A v \in InitPrices :
              IsConstant(ema_call.prices, v) => ema_call.result = v
    /\ Len(series) >= EMA_SLOW + 5 =>
          \A v \in InitPrices :
              IsConstant(series, v) =>
                  det = [crossover |-> "None", ema_fast |-> v, ema_slow |-> v]

\* C8, amended: calculate_ema of a constant series of value v, with
\* 1 <= period <= length, is v within floating-point tolerance, and exactly
\* v when v is a whole number; the detector on a constant series of at least
\* EMA_SLOW + 5 closes returns a fast and a slow EMA that are v within that
\* tolerance, exactly v when v is a whole number, and no crossover when v is
\* a whole number or the series has more than EMA_SLOW + 5 closes.
C8_ConstantSeries ==
    /\ (ema_call # NotRun /\ ema_call.period >= 1
           /\ Len(ema_call.prices) >= ema_call.period) =>
          \A v \in InitPrices :
              IsConstant(ema_call.prices, v) =>
                  /\ Close(ema_call.result, v)
                  /\ v \in Prices => ema_call.result = v
    /\ Len(series) >= EMA_SLOW + 5 =>
          \A v \in InitPrices :
              IsConstant(series, v) =>
                  /\ (v \in Prices \/ Len(series) > EMA_SLOW + 5) =>
                         det.crossover = "None"
                  /\ Close(det.ema_fast, v) /\ Close(det.ema_slow, v)
                  /\ v \in Prices => det.ema_fast = v /\ det.ema_slow = v

\* 20 closes of 100.0: calculate_ema with the slow period gives 100.0, and
\* the detector gave EMA(9) = EMA(15) = 100.0 and no crossover
C8_Witness ==
    /\ series = ConstSeries(FloatOfInt(100), EMA_SLOW + 5)
    /\ det = [crossover |-> "None", ema_fast |-> FloatOfInt(100),
               ema_slow |-> FloatOfInt(100)]
    /\ ema_call # NotRun
    /\ ema_call.period = EMA_SLOW
    /\ ema_call.result = FloatOfInt(100)

\* C9: calculate_ema with a period <= 0 reports an error; it never returns
\* an EMA value or None.
C9_RejectsNonPositivePeriod ==
    (ema_call # NotRun /\ ema_call.period <= 0) => ema_call.result.tag = "raise"

(***************************************************************************)
(* Claims about the polling loop, checked under Spec                       *)
(***************************************************************************)
Iterated == outcome.tag = "iteration"

\* the entry of the iteration's symbol in the dict is what it was before
\* the iteration
TimestampKept ==
    IF outcome.had_ts
    THEN /\ outcome.api_symbol \in DOMAIN last_alert_timestamp
         /\ last_alert_timestamp[outcome.api_symbol] = outcome.last_ts
    ELSE outcome.api_symbol \notin DOMAIN last_alert_timestamp

\* C1: when a crossover passes the throttle gate and send_email_alert
\* returns False, the symbol's last-alert timestamp is left as it was.
C1_FailedDispatchKeepsTimestamp ==
    (Iterated /\ outcome.gate = "allowed" /\ outcome.dispatch = "failed")
        => TimestampKept

\* what the provider, or the missing key, makes of a fetch that fails
FetchFailures == {"timeout", "http_error", "bad_json", "no_values", "no_api_key"}

\* C2: a fetch failure for a symbol only skips that symbol: the process
\* does not crash and the for loop goes on to the next symbol.
C2_FetchFailureOnlySkips ==
    (Iterated /\ outcome.fetch \in FetchFailures)
        => /\ pc = "for"
           /\ outcome.skipped
           /\ idx = outcome.index + 1

\* C3: for a symbol with a crossover at event time now, the alert is
\* allowed, and dispatched, if and only if no alert is recorded for the
\* symbol or now - (the recorded time) is strictly greater than
\* sleep_seconds; at the recorded time + sleep_seconds exactly it is not.
C3_Throttle ==
    (Iterated /\ outcome.crossover # "None") =>
        /\ outcome.gate \in {"allowed", "blocked"}
        /\ outcome.gate = "allowed" <=>
               (~outcome.had_ts \/ outcome.now - outcome.last_ts > sleep_seconds)
        /\ outcome.dispatch # "none" <=> outcome.gate = "allowed"
        /\ outcome.gate = "blocked" => TimestampKept

\* a crossover exactly sleep_seconds after the recorded alert is blocked
C3_Witness ==
    /\ Iterated
    /\ outcome.crossover # "None"
    /\ outcome.had_ts
    /\ outcome.now - outcome.last_ts = sleep_seconds
    /\ outcome.gate = "blocked"

\* C4: the polling loop is entered only with the three credentials set,
\* and a missing API key is never met by a fetch.
C4_ConfigFatalAtStartup ==
    /\ pc \in {"while", "for"} =>
          /\ Truthy(TWELVEDATA_API_KEY)
          /\ Truthy(TELEGRAM_BOT_TOKEN)
          /\ Truthy(TELEGRAM_CHAT_ID)
    /\ Iterated => outcome.fetch # "no_api_key"

\* C10: the event time of every throttle check is the now taken at the
\* start of its cycle, which the for loop leaves alone; the nows of
\* consecutive cycles are at least sleep_seconds apart; and a crossover is
\* blocked only if some cycle reached its sleep without any time passing.
C10_CycleSpacing ==
    [][ /\ (pc = "while" /\ pc' = "for" /\ cycle > 0) => now' - now >= sleep_seconds
        /\ pc = "for" => now' = now
        /\ outcome'.tag = "iteration" =>
              /\ outcome'.now = now'
              /\ outcome'.gate = "blocked" => zero_cycle'
      ]_vars

\* a symbol alerted in two consecutive cycles, every cycle so far having
\* taken time before its sleep
C10_Witness ==
    /\ Iterated
    /\ outcome.gate = "allowed"
    /\ outcome.had_ts
    /\ outcome.now - outcome.last_ts > sleep_seconds
    /\ outcome.now - outcome.last_ts < 2 * sleep_seconds
    /\ ~zero_cycle
====
